---- MODULE Spec2Model ----
(***************************************************************************)
(* A model of tensorpack/dataflow/imgaug/base.py: the augmentor base       *)
(* class (RNG lifecycle, fork hook, legacy hook dispatch, __repr__) and    *)
(* AugmentorList.                                                          *)
(*                                                                         *)
(* SpecLife: instances in a parent and a forked child process:             *)
(*   construction, reset_state, _rand_range, the fork hook, references     *)
(*   and collection.                                                       *)
(* SpecAug: one augmentor of any class: get_transform, augment, and the    *)
(*   transform's apply_image and apply_coords.                             *)
(* SpecList: an AugmentorList over two augmentors and an inner list.       *)
(* SpecRepr: __repr__ of an instance of a subclass.                        *)
(***************************************************************************)
EXTENDS Integers, Sequences, FiniteSets, TLC

\* ------------------------------------------------------------------------
\* Bounds
\* ------------------------------------------------------------------------
MaxAug == 3
MaxListLen == 2
MaxDraws == 1
MaxOps == 4
NImg == 3
NCoord == 3
RngPeriod == 2
MaxStages == 2
MaxFields == 2

AugIds == 1..MaxAug
Procs == {"P", "C"}

VARIABLES
    hasRegisterAtFork,  \* hasattr(os, 'register_at_fork') on this platform
    heap,               \* per process: instance id -> object
    atFork,             \* per process: the after_in_child callbacks registered, in order
    forked,             \* the child process exists
    pending,            \* after_in_child callbacks the child has still to run inside os.fork()
    lastReset,          \* the last reset_state() call made from outside, with its trace
    lastDraw,           \* the last _rand_range() call
    ops,                \* operations the user code has made so far
    insts,              \* SpecAug, SpecList: instance id -> class, list contents
    rngs,               \* SpecAug, SpecList: instance id -> position in its RNG stream
    call,               \* SpecAug, SpecList: the last call and what it returned
    sig,                \* SpecRepr: the subclass's name and constructor signature
    attrs,              \* SpecRepr: the instance's attributes, by constructor parameter
    shown               \* SpecRepr: what the last repr(aug) returned

lifeVars == <<hasRegisterAtFork, heap, atFork, forked, pending, lastReset, lastDraw, ops>>
augVars == <<insts, rngs, call>>
reprVars == <<sig, attrs, shown>>
vars == <<lifeVars, augVars, reprVars>>

\* ------------------------------------------------------------------------
\* Objects
\* ------------------------------------------------------------------------
NoRng == [pid |-> "none", pos |-> 0]

NoObj == [exists |-> FALSE, isList |-> FALSE, augmentors |-> <<>>, rng |-> NoRng,
          held |-> FALSE, wasReset |-> FALSE, born |-> "none"]

NoReset == [proc |-> "none", self |-> 0, augmentors |-> <<>>, trace |-> <<>>]
NoDraw == [proc |-> "none", aug |-> 0, ok |-> FALSE, rngpid |-> "none",
           wasReset |-> FALSE, born |-> "none"]

SeqsUpTo(S, n) == UNION {[1..k -> S] : k \in 0..n}

RECURSIVE Flatten(_)
Flatten(ss) == IF ss = <<>> THEN <<>> ELSE Head(ss) \o Flatten(Tail(ss))

Reverse(s) == [i \in 1..Len(s) |-> s[Len(s) + 1 - i]]

\* utils.get_rng(obj): a fresh RandomState seeded from id(obj), the pid and the
\* clock; the model keeps the process that created it and how many draws were
\* taken from it.
get_rng(p) == [pid |-> p, pos |-> 0]

\* ------------------------------------------------------------------------
\* reset_state
\* ------------------------------------------------------------------------
RngEvent(a) == [op |-> "rng", self |-> a, target |-> a]
CallEvent(a, c) == [op |-> "call", self |-> a, target |-> c]

RECURSIVE ResetCalls(_, _)

\* ImageAugmentor.reset_state: self.rng = get_rng(self)
ImageAugmentor_reset_state(a) == <<RngEvent(a)>>

AugmentorList_reset_state_reversed(h, a) ==
    ImageAugmentor_reset_state(a)
        \o Flatten([i \in 1..Len(h[a].augmentors) |->
                      <<CallEvent(a, Reverse(h[a].augmentors)[i])>>
                          \o ResetCalls(h, Reverse(h[a].augmentors)[i])])

\* AugmentorList.reset_state: the super call, then a.reset_state() for a in
\* self.augmentors. The result is the events of the call in program order.
AugmentorList_reset_state(h, a) ==
    ImageAugmentor_reset_state(a)
        \o Flatten([i \in 1..Len(h[a].augmentors) |->
                      <<CallEvent(a, h[a].augmentors[i])>>
                          \o ResetCalls(h, h[a].augmentors[i])])

\* a.reset_state(), dispatched on the instance's class
ResetCalls(h, a) ==
    IF h[a].isList THEN AugmentorList_reset_state(h, a)
    ELSE ImageAugmentor_reset_state(a)

RngTargets(trace) == {trace[i].self : i \in {j \in 1..Len(trace) : trace[j].op = "rng"}}

\* The heap after a.reset_state() ran in process p; fromInit is the call made by
\* a's own constructor.
reset_state(h, p, a, fromInit) ==
    LET touched == RngTargets(ResetCalls(h, a))
    IN [x \in AugIds |->
          IF x \in touched
          THEN [h[x] EXCEPT !.rng = get_rng(p),
                            !.wasReset = IF fromInit /\ x = a THEN FALSE ELSE TRUE]
          ELSE h[x]]

\* ------------------------------------------------------------------------
\* Construction and the fork hook
\* ------------------------------------------------------------------------
ImageAugmentor_init_no_reset(h, p, a) == h

\* ImageAugmentor.__init__, first statement: self.reset_state()
ImageAugmentor_init(h, p, a) == reset_state(h, p, a, TRUE)

\* ImageAugmentor.__init__, second statement: os.register_at_fork(
\* after_in_child=lambda: _reset_augmentor_after_fork(weakref.ref(self))).
\* The lambda is a closure over self, so the registered callable holds self
\* itself; the weak reference is only made when the callable runs.
RegisterAtFork(hooks, a) == Append(hooks, [self |-> a, strong |-> TRUE])

\* weakref.ref(self)() inside the callback: the instance the closure holds
Deref(h, hook) == IF h[hook.self].exists THEN hook.self ELSE 0

reset_augmentor_after_fork_skip(h, p, aug) == h

\* _reset_augmentor_after_fork(aug_ref): aug = aug_ref(); if aug: aug.reset_state()
reset_augmentor_after_fork(h, p, aug) ==
    IF aug # 0 THEN reset_state(h, p, aug, FALSE) ELSE h

\* Instances something else than the user's variable keeps alive: a list's
\* self.augmentors, and the closures held by the at-fork registry.
HeldByList(h, a) ==
    \E l \in AugIds : h[l].exists /\ h[l].isList
                        /\ \E i \in 1..Len(h[l].augmentors) : h[l].augmentors[i] = a
HeldByHook(hooks, a) ==
    \E i \in 1..Len(hooks) : hooks[i].self = a /\ hooks[i].strong
Collectable(h, hooks, a) ==
    h[a].exists /\ ~h[a].held /\ ~HeldByList(h, a) /\ ~HeldByHook(hooks, a)

\* The process runs user code: the parent always, the child once os.fork() has
\* returned in it, which is after every after_in_child callback ran.
Running(p) == p = "P" \/ (forked /\ pending = <<>>)

\* ------------------------------------------------------------------------
\* Actions of SpecLife
\* ------------------------------------------------------------------------
InitLife ==
    /\ hasRegisterAtFork \in BOOLEAN
    /\ heap = [p \in Procs |-> [a \in AugIds |-> NoObj]]
    /\ atFork = [p \in Procs |-> <<>>]
    /\ forked = FALSE
    /\ pending = <<>>
    /\ lastReset = NoReset
    /\ lastDraw = NoDraw
    /\ ops = 0
    /\ insts = <<>> /\ rngs = <<>> /\ call = <<>>
    /\ sig = <<>> /\ attrs = <<>> /\ shown = <<>>

\* aug = ImageAugmentor() or aug = AugmentorList(augs)
Construct(p, a, isList, augs) ==
    /\ Running(p)
    /\ ops < MaxOps /\ ops' = ops + 1
    /\ ~heap[p][a].exists /\ \A b \in 1..(a - 1) : heap[p][b].exists
    /\ isList \/ augs = <<>>
    /\ \A i \in 1..Len(augs) : heap[p][augs[i]].exists /\ heap[p][augs[i]].held
    /\ LET h0 == [heap[p] EXCEPT ![a] = [NoObj EXCEPT !.exists = TRUE, !.isList = isList,
                                                     !.augmentors = augs, !.held = TRUE,
                                                     !.born = p]]
       IN heap' = [heap EXCEPT ![p] = ImageAugmentor_init(h0, p, a)]
    /\ atFork' = IF hasRegisterAtFork
                 THEN [atFork EXCEPT ![p] = RegisterAtFork(atFork[p], a)]
                 ELSE atFork
    /\ UNCHANGED <<hasRegisterAtFork, forked, pending, lastReset, lastDraw, augVars, reprVars>>

\* aug.reset_state() called by the user
ResetState(p, a) ==
    /\ Running(p)
    /\ ops < MaxOps /\ ops' = ops + 1
    /\ heap[p][a].exists /\ heap[p][a].held
    /\ lastReset' = [proc |-> p, self |-> a, augmentors |-> heap[p][a].augmentors,
                     trace |-> ResetCalls(heap[p], a)]
    /\ heap' = [heap EXCEPT ![p] = reset_state(heap[p], p, a, FALSE)]
    /\ UNCHANGED <<hasRegisterAtFork, atFork, forked, pending, lastDraw, augVars, reprVars>>

\* aug._rand_range(): self.rng.uniform(low, high, size); AttributeError when the
\* instance has no rng
RandRange(p, a) ==
    /\ Running(p)
    /\ ops < MaxOps /\ ops' = ops + 1
    /\ heap[p][a].exists /\ heap[p][a].held
    /\ heap[p][a].rng.pos < MaxDraws
    /\ lastDraw' = [proc |-> p, aug |-> a, ok |-> heap[p][a].rng # NoRng,
                    rngpid |-> heap[p][a].rng.pid, wasReset |-> heap[p][a].wasReset,
                    born |-> heap[p][a].born]
    /\ heap' = IF heap[p][a].rng # NoRng
               THEN [heap EXCEPT ![p][a].rng.pos = @ + 1]
               ELSE heap
    /\ UNCHANGED <<hasRegisterAtFork, atFork, forked, pending, lastReset, augVars, reprVars>>

\* del aug: the user's variable goes away
DropRef(p, a) ==
    /\ Running(p)
    /\ ops < MaxOps /\ ops' = ops + 1
    /\ heap[p][a].exists /\ heap[p][a].held
    /\ heap' = [heap EXCEPT ![p][a].held = FALSE]
    /\ UNCHANGED <<hasRegisterAtFork, atFork, forked, pending, lastReset, lastDraw, augVars, reprVars>>

\* the interpreter frees an instance nothing refers to
Collect(p, a) ==
    /\ Running(p)
    /\ Collectable(heap[p], atFork[p], a)
    /\ heap' = [heap EXCEPT ![p][a] = NoObj]
    /\ UNCHANGED <<hasRegisterAtFork, atFork, forked, pending, lastReset, lastDraw, ops, augVars, reprVars>>

\* os.fork(): the child gets a copy of the parent's memory and runs the
\* registered after_in_child callbacks, in registration order, before fork()
\* returns in it
Fork ==
    /\ ~forked
    /\ ops < MaxOps /\ ops' = ops + 1
    /\ forked' = TRUE
    /\ heap' = [heap EXCEPT !["C"] = heap["P"]]
    /\ atFork' = [atFork EXCEPT !["C"] = atFork["P"]]
    /\ pending' = atFork["P"]
    /\ UNCHANGED <<hasRegisterAtFork, lastReset, lastDraw, augVars, reprVars>>

\* one registered callback runs in the child
AfterInChild ==
    /\ forked /\ pending # <<>>
    /\ heap' = [heap EXCEPT !["C"] =
                  reset_augmentor_after_fork(heap["C"], "C", Deref(heap["C"], Head(pending)))]
    /\ pending' = Tail(pending)
    /\ UNCHANGED <<hasRegisterAtFork, atFork, forked, lastReset, lastDraw, ops, augVars, reprVars>>

\* the instances the user's code in process p has a variable for
Held(p) == {a \in AugIds : heap[p][a].exists /\ heap[p][a].held}

\* the user's code in process p can make one more operation
CanRun(p) == Running(p) /\ ops < MaxOps

NextLife ==
    \/ \E p \in Procs : CanRun(p) /\ \E a \in AugIds : Construct(p, a, FALSE, <<>>)
    \/ \E p \in Procs : CanRun(p) /\ \E a \in AugIds, augs \in SeqsUpTo(Held(p), MaxListLen) :
                                        Construct(p, a, TRUE, augs)
    \/ \E p \in Procs : CanRun(p) /\ \E a \in Held(p) : ResetState(p, a)
    \/ \E p \in Procs : CanRun(p) /\ \E a \in Held(p) : RandRange(p, a)
    \/ \E p \in Procs : CanRun(p) /\ \E a \in Held(p) : DropRef(p, a)
    \/ \E p \in Procs, a \in AugIds : Collect(p, a)
    \/ Fork
    \/ AfterInChild

SpecLife == InitLife /\ [][NextLife]_vars

\* ------------------------------------------------------------------------
\* Properties of SpecLife
\* ------------------------------------------------------------------------
Range(s) == {s[i] : i \in 1..Len(s)}

\* the targets of the a.reset_state() calls that `self` itself made, in order
DirectCalls(trace, self) ==
    LET calls == SelectSeq(trace, LAMBDA e : e.op = "call" /\ e.self = self)
    IN [i \in 1..Len(calls) |-> calls[i].target]

ListWasReset == lastReset.proc # "none" /\ heap[lastReset.proc][lastReset.self].isList

\* C2 (as stated): one reset_state() of a list resets the list's own RNG first
\* and then calls reset_state() on every contained augmentor exactly once, in
\* list order, also when one instance appears in the list more than once.
C2_EachContainedOnce ==
    ListWasReset =>
        /\ lastReset.trace[1] = RngEvent(lastReset.self)
        /\ DirectCalls(lastReset.trace, lastReset.self) = lastReset.augmentors
        /\ \A c \in Range(lastReset.augmentors) :
              Cardinality({i \in 1..Len(lastReset.trace) :
                              lastReset.trace[i] = CallEvent(lastReset.self, c)}) = 1

\* C2 (amended): one reset_state() of a list resets the list's own RNG first and
\* then calls reset_state() once per list position, in list order: the targets
\* of its calls are exactly self.augmentors, so an instance that appears k times
\* is reset k times.
C2_OncePerPosition ==
    ListWasReset =>
        /\ lastReset.trace[1] = RngEvent(lastReset.self)
        /\ \A i \in 2..Len(lastReset.trace) : lastReset.trace[i] # RngEvent(lastReset.self)
        /\ DirectCalls(lastReset.trace, lastReset.self) = lastReset.augmentors

\* C2 witness: a list holding the same instance twice was reset
C2_Witness ==
    /\ ListWasReset
    /\ Len(lastReset.augmentors) = 2
    /\ lastReset.augmentors[1] = lastReset.augmentors[2]
    /\ Len(lastReset.trace) >= 5

\* C3 (as stated): a draw on a constructed augmentor fails when reset_state()
\* was never called on it after construction, and succeeds when it was.
C3_FailsWithoutReset ==
    lastDraw.proc # "none" => (lastDraw.ok <=> lastDraw.wasReset)

\* C3 (amended): the constructor itself calls reset_state(), so every
\* constructed augmentor has an RNG and a draw on it succeeds, whether or not
\* reset_state() was called again after construction.
C3_ConstructedHasRng ==
    /\ \A p \in Procs, a \in AugIds : heap[p][a].exists => heap[p][a].rng # NoRng
    /\ lastDraw.proc # "none" => lastDraw.ok

\* C3 witness: a draw succeeded on an augmentor never reset after construction
C3_Witness == lastDraw.proc # "none" /\ ~lastDraw.wasReset /\ lastDraw.ok

\* C4: where os.register_at_fork exists, once fork() has returned in the child
\* every augmentor there has an RNG made in the child, and no draw in the child
\* uses an RNG handle made in the parent, whatever the parent does meanwhile.
C4_ChildNeverUsesParentRng ==
    hasRegisterAtFork =>
        /\ lastDraw.proc = "C" => lastDraw.rngpid = "C"
        /\ Running("C") =>
              \A a \in AugIds : heap["C"][a].exists => heap["C"][a].rng.pid = "C"

\* C4 witness: the child drew from an augmentor that was constructed in the
\* parent, while the parent's copy of the same augmentor had been drawn from
C4_Witness ==
    /\ hasRegisterAtFork
    /\ lastDraw.proc = "C" /\ lastDraw.ok /\ lastDraw.born = "P"
    /\ heap["P"][lastDraw.aug].exists /\ heap["P"][lastDraw.aug].rng.pos > 0

\* C5: the registered fork callback never keeps its augmentor alive: an
\* augmentor that neither the user nor a list refers to is collectable.
C5_HookIsNonOwning ==
    \A p \in Procs, a \in AugIds :
        (heap[p][a].exists /\ ~heap[p][a].held /\ ~HeldByList(heap[p], a))
            => Collectable(heap[p], atFork[p], a)

\* ------------------------------------------------------------------------
\* Augmentor classes, parameters and transforms (SpecAug, SpecList)
\* ------------------------------------------------------------------------
Imgs == 0..(NImg - 1)
Coords == 0..(NCoord - 1)

Ok(v) == [ok |-> TRUE, val |-> v]
Err(e) == [ok |-> FALSE, val |-> e]

\* What a parameter hook of a subclass can be: not defined; defined and raising
\* AttributeError inside; returning None; returning a plain value; returning a
\* Transform; returning an object that is no Transform but has an apply_coords
\* method, which returns or raises ValueError.
HookKinds == {"absent", "raises", "none", "plain", "tfm", "duck", "duckraise"}
\* the subclass's _augment(img, p), and its _augment_coords(coords, p)
AugmentKinds == {"absent", "add", "dbl"}
CoordsKinds == {"absent", "present"}

LegacyClasses ==
    [base : {"legacy"}, priv : HookKinds, pub : HookKinds, augment : AugmentKinds,
     coords : CoordsKinds, get_params : {"none"}, impl : {"absent"}, augmentors : {<<>>}]
PhotometricClasses ==
    [base : {"photometric"}, priv : {"absent"}, pub : {"absent"}, augment : {"absent"},
     coords : {"absent"}, get_params : {"none", "plain"}, impl : {"absent", "add", "dbl"},
     augmentors : {<<>>}]
ListOf(augs) ==
    [base |-> "list", priv |-> "absent", pub |-> "absent", augment |-> "absent",
     coords |-> "absent", get_params |-> "none", impl |-> "absent", augmentors |-> augs]

NoneParam == [kind |-> "none", src |-> "none", v |-> 0]
NoTfm == [kind |-> "none", self |-> 0, p |-> NoneParam]
NoCall == [op |-> "none", self |-> 0, img |-> 0, valid |-> TRUE, coords |-> 0, rng0 |-> <<>>,
           p |-> NoneParam, tfm |-> NoTfm, tfms |-> <<>>, out |-> Ok(0)]

\* self._rand_range(): the next value of the instance's stream
NextPos(pos) == (pos + 1) % RngPeriod

\* One parameter hook called on img: whether it responded (returned instead of
\* raising AttributeError), what it returned, and the stream position after it.
\* A hook that returns an object draws once from self.rng to make it.
HookCall(hook, src, img, pos) ==
    CASE hook \in {"absent", "raises"} -> [responds |-> FALSE, p |-> NoneParam, pos |-> pos]
      [] hook = "none" -> [responds |-> TRUE, p |-> NoneParam, pos |-> pos]
      [] OTHER -> [responds |-> TRUE,
                   p |-> [kind |-> hook, src |-> src, v |-> (img + pos) % NImg],
                   pos |-> NextPos(pos)]

ResolveParam_first_wins(cls, img, pos) ==
    LET r1 == HookCall(cls.priv, "priv", img, pos)
        r2 == HookCall(cls.pub, "pub", img, r1.pos)
    IN [p |-> IF r1.responds THEN r1.p ELSE IF r2.responds THEN r2.p ELSE NoneParam,
        pos |-> r2.pos]

\* ImageAugmentor.get_transform, the two try blocks: p = None; p =
\* self._get_augment_params(img) unless AttributeError; then p =
\* self.get_augment_params(img) unless AttributeError
ResolveParam(cls, img, pos) ==
    LET r1 == HookCall(cls.priv, "priv", img, pos)
        p1 == IF r1.responds THEN r1.p ELSE NoneParam
        r2 == HookCall(cls.pub, "pub", img, r1.pos)
        p2 == IF r2.responds THEN r2.p ELSE p1
    IN [p |-> p2, pos |-> r2.pos]

\* transform.Transform.apply_image / apply_coords of a Transform a subclass
\* returned as its parameter
Transform_apply_image(t, img) == Ok((img + t.p.v) % NImg)
Transform_apply_coords(t, c) == Ok((c + t.p.v) % NCoord)

\* the subclass's self._augment(img, p): AttributeError when it defines none
LegacyAugment(cls, img, p) ==
    CASE cls.augment = "absent" -> Err("AttributeError")
      [] cls.augment = "add" -> Ok((img + p.v) % NImg)
      [] OTHER -> Ok((2 * img + p.v) % NImg)

\* the subclass's self._augment_coords(coords, p)
LegacyAugmentCoords(cls, c, p) ==
    IF cls.coords = "absent" THEN Err("AttributeError") ELSE Ok((c + p.v + 1) % NCoord)

\* p.apply_coords(coords) on a parameter that is no Transform
ParamApplyCoords(p, c) ==
    CASE p.kind \in {"none", "plain"} -> Err("AttributeError")
      [] p.kind = "duckraise" -> Err("ValueError")
      [] OTHER -> Ok((c + p.v + 2) % NCoord)

\* ImageAugmentor.augment_coords(coords, param): return param.apply_coords(coords)
ImageAugmentor_augment_coords(c, p) == ParamApplyCoords(p, c)

legacy_augment_coords_no_fallback(cls, c, p) ==
    LET r1 == LegacyAugmentCoords(cls, c, p)
    IN IF r1 # Err("AttributeError") THEN r1 ELSE ImageAugmentor_augment_coords(c, p)

\* get_transform.legacy_augment_coords: self._augment_coords, else
\* self.augment_coords, each skipped on AttributeError, else coords
legacy_augment_coords(cls, c, p) ==
    LET r1 == LegacyAugmentCoords(cls, c, p)
        r2 == ImageAugmentor_augment_coords(c, p)
    IN IF r1 # Err("AttributeError") THEN r1
       ELSE IF r2 # Err("AttributeError") THEN r2
       ELSE Ok(c)

ImageAugmentor_get_transform_always_wraps(cls, self, img, pos) ==
    LET r == ResolveParam(cls, img, pos)
    IN [out |-> Ok([kind |-> "legacy", self |-> self, p |-> r.p]), p |-> r.p, pos |-> r.pos]

\* ImageAugmentor.get_transform: the resolved parameter itself when it is a
\* Transform, else TransformFactory(apply_image=lambda img: self._augment(img, p),
\* apply_coords=lambda coords: legacy_augment_coords(self, coords, p))
ImageAugmentor_get_transform(cls, self, img, pos) ==
    LET r == ResolveParam(cls, img, pos)
    IN [out |-> Ok(IF r.p.kind = "tfm" THEN [kind |-> "tfm", self |-> 0, p |-> r.p]
                   ELSE [kind |-> "legacy", self |-> self, p |-> r.p]),
        p |-> r.p, pos |-> r.pos]

\* PhotometricAugmentor._get_params: None, unless the subclass overrides it
Photometric_get_params(cls, img, pos) == HookCall(cls.get_params, "params", img, pos)

\* PhotometricAugmentor.get_transform: PhotometricTransform(func=lambda img:
\* self._impl(img, p))
PhotometricAugmentor_get_transform(cls, self, img, pos) ==
    LET r == Photometric_get_params(cls, img, pos)
    IN [out |-> Ok([kind |-> "photo", self |-> self, p |-> r.p]), p |-> r.p, pos |-> r.pos]

\* AugmentorList.get_transform: raise RuntimeError
AugmentorList_get_transform(pos) == [out |-> Err("RuntimeError"), p |-> NoneParam, pos |-> pos]

\* a.get_transform(img), dispatched on the instance's class
GetTransformOf(is, rs, a, img) ==
    CASE is[a].base = "list" -> AugmentorList_get_transform(rs[a])
      [] is[a].base = "photometric" -> PhotometricAugmentor_get_transform(is[a], a, img, rs[a])
      [] OTHER -> ImageAugmentor_get_transform(is[a], a, img, rs[a])

\* the subclass's self._impl(img, p)
PhotometricImpl(cls, img, p) ==
    CASE cls.impl = "absent" -> Err("AttributeError")
      [] cls.impl = "add" -> Ok((img + p.v) % NImg)
      [] OTHER -> Ok((2 * img + p.v) % NImg)

apply_image_identity_default(is, t, img) ==
    CASE t.kind = "tfm" -> Transform_apply_image(t, img)
      [] t.kind = "photo" -> PhotometricImpl(is[t.self], img, t.p)
      [] OTHER -> IF is[t.self].augment = "absent" THEN Ok(img)
                  ELSE LegacyAugment(is[t.self], img, t.p)

\* t.apply_image(img)
apply_image(is, t, img) ==
    CASE t.kind = "tfm" -> Transform_apply_image(t, img)
      [] t.kind = "photo" -> PhotometricImpl(is[t.self], img, t.p)
      [] OTHER -> LegacyAugment(is[t.self], img, t.p)

\* t.apply_coords(coords); a PhotometricTransform leaves coordinates alone
apply_coords(is, t, c) ==
    CASE t.kind = "tfm" -> Transform_apply_coords(t, c)
      [] t.kind = "photo" -> Ok(c)
      [] OTHER -> legacy_augment_coords(is[t.self], c, t.p)

\* ImageAugmentor.augment_return_tfm: t = self.get_transform(img); return
\* t.apply_image(img), t
ImageAugmentor_augment_return_tfm(is, rs, a, img) ==
    LET g == GetTransformOf(is, rs, a, img)
    IN [out |-> IF g.out.ok THEN apply_image(is, g.out.val, img) ELSE g.out,
        tfm |-> IF g.out.ok THEN g.out.val ELSE NoTfm,
        p |-> g.p,
        rs |-> [rs EXCEPT ![a] = g.pos]]

\* ImageAugmentor.augment: t = self.get_transform(img); return t.apply_image(img)
ImageAugmentor_augment(is, rs, a, img) ==
    LET g == GetTransformOf(is, rs, a, img)
    IN [out |-> IF g.out.ok THEN apply_image(is, g.out.val, img) ELSE g.out,
        rs |-> [rs EXCEPT ![a] = g.pos]]

\* ------------------------------------------------------------------------
\* AugmentorList
\* ------------------------------------------------------------------------
RECURSIVE ListLoop(_, _, _, _, _)
\* AugmentorList.augment_return_tfm, the loop: for a in self.augmentors:
\* t = a.get_transform(img); img = t.apply_image(img); tfms.append(t).
\* An exception ends the call; the draws made before it stay made.
ListLoop(is, rs, augs, img, tfms) ==
    IF augs = <<>> THEN [out |-> Ok(img), tfms |-> tfms, rs |-> rs]
    ELSE LET a == Head(augs)
             g == GetTransformOf(is, rs, a, img)
             rs1 == [rs EXCEPT ![a] = g.pos]
             r == apply_image(is, g.out.val, img)
         IN IF ~g.out.ok THEN [out |-> g.out, tfms |-> <<>>, rs |-> rs1]
            ELSE IF ~r.ok THEN [out |-> r, tfms |-> <<>>, rs |-> rs1]
            ELSE ListLoop(is, rs1, Tail(augs), r.val, Append(tfms, g.out.val))

\* AugmentorList.augment_return_tfm: check_dtype(img) and the ndim assertion
\* (valid: the image passes both), the loop, return img, TransformList(tfms)
AugmentorList_augment_return_tfm(is, rs, l, img, valid) ==
    IF ~valid THEN [out |-> Err("AssertionError"), tfms |-> <<>>, rs |-> rs]
    ELSE ListLoop(is, rs, is[l].augmentors, img, <<>>)

\* AugmentorList.augment: return self.augment_return_tfm(d)[0]
AugmentorList_augment(is, rs, l, img, valid) ==
    LET r == AugmentorList_augment_return_tfm(is, rs, l, img, valid)
    IN [out |-> r.out, rs |-> r.rs]

\* a.augment(img), dispatched on the instance's class
AugmentOf(is, rs, a, img, valid) ==
    IF is[a].base = "list" THEN AugmentorList_augment(is, rs, a, img, valid)
    ELSE ImageAugmentor_augment(is, rs, a, img)

\* ------------------------------------------------------------------------
\* SpecAug: one augmentor of any class, called by the user
\* ------------------------------------------------------------------------
InitAug ==
    /\ insts \in {<<c>> : c \in LegacyClasses \cup PhotometricClasses}
    /\ rngs \in {<<k>> : k \in 0..(RngPeriod - 1)}
    /\ call = NoCall
    /\ hasRegisterAtFork = FALSE /\ heap = <<>> /\ atFork = <<>> /\ forked = FALSE
    /\ pending = <<>> /\ lastReset = NoReset /\ lastDraw = NoDraw /\ ops = 0
    /\ sig = <<>> /\ attrs = <<>> /\ shown = <<>>

\* t = aug.get_transform(img)
GetTransform(img) ==
    LET g == GetTransformOf(insts, rngs, 1, img)
    IN /\ call' = [NoCall EXCEPT !.op = "get_transform", !.self = 1, !.img = img,
                                 !.rng0 = rngs, !.p = g.p, !.tfm = g.out.val,
                                 !.out = Ok(0)]
       /\ rngs' = [rngs EXCEPT ![1] = g.pos]
       /\ UNCHANGED <<insts, lifeVars, reprVars>>

\* aug.augment(img)
Augment(img) ==
    LET r == AugmentOf(insts, rngs, 1, img, TRUE)
    IN /\ call' = [NoCall EXCEPT !.op = "augment", !.self = 1, !.img = img,
                                 !.rng0 = rngs, !.out = r.out]
       /\ rngs' = r.rs
       /\ UNCHANGED <<insts, lifeVars, reprVars>>

\* img2, t = aug.augment_return_tfm(img)
AugmentReturnTfm(img) ==
    LET r == ImageAugmentor_augment_return_tfm(insts, rngs, 1, img)
    IN /\ call' = [NoCall EXCEPT !.op = "augment_return_tfm", !.self = 1, !.img = img,
                                 !.rng0 = rngs, !.p = r.p, !.tfm = r.tfm, !.out = r.out]
       /\ rngs' = r.rs
       /\ UNCHANGED <<insts, lifeVars, reprVars>>

\* t.apply_coords(coords) on the transform the last call returned
ApplyCoords(c) ==
    /\ call.tfm # NoTfm
    /\ call' = [call EXCEPT !.op = "apply_coords", !.coords = c, !.rng0 = rngs,
                            !.out = apply_coords(insts, call.tfm, c)]
    /\ UNCHANGED <<insts, rngs, lifeVars, reprVars>>

\* t.apply_image(img) on the transform the last call returned
ApplyImage(img) ==
    /\ call.tfm # NoTfm
    /\ call' = [call EXCEPT !.op = "apply_image", !.img = img, !.rng0 = rngs,
                            !.out = apply_image(insts, call.tfm, img)]
    /\ UNCHANGED <<insts, rngs, lifeVars, reprVars>>

NextAug ==
    \/ \E img \in Imgs : GetTransform(img)
    \/ \E img \in Imgs : Augment(img)
    \/ \E img \in Imgs : AugmentReturnTfm(img)
    \/ \E c \in Coords : ApplyCoords(c)
    \/ \E img \in Imgs : ApplyImage(img)

SpecAug == InitAug /\ [][NextAug]_vars

\* ------------------------------------------------------------------------
\* Properties of SpecAug
\* ------------------------------------------------------------------------
Cls == insts[call.self]
Pos0 == call.rng0[call.self]

\* A class with only the legacy single-step hooks: one parameter hook and _augment
OnlyLegacyHooks ==
    /\ Cls.base = "legacy" /\ Cls.augment # "absent"
    /\ (Cls.priv = "absent") # (Cls.pub = "absent")

\* legacy_params(image): the class's one parameter hook, called on the image
\* from the state the call started in
LegacyParams ==
    IF Cls.priv # "absent" THEN HookCall(Cls.priv, "priv", call.img, Pos0)
    ELSE HookCall(Cls.pub, "pub", call.img, Pos0)

\* C6 (as stated): for a class with only the legacy hooks, augment(image) is
\* legacy_apply(image, legacy_params(image)): _augment applied to the image and
\* to what the parameter hook gives for that image.
C6_AugmentIsLegacyApply ==
    (call.op = "augment" /\ OnlyLegacyHooks) =>
        call.out = IF LegacyParams.responds
                   THEN LegacyAugment(Cls, call.img, LegacyParams.p)
                   ELSE Err("AttributeError")

\* C6 (amended): for a class with only the legacy hooks, augment(image) is
\* _augment(image, p) when the parameter hook returns a p that is no Transform;
\* it is p.apply_image(image), without _augment, when p is a Transform; and it is
\* _augment(image, None) when the hook raises AttributeError.
C6_AugmentIsLegacyApplyUnlessTransform ==
    (call.op = "augment" /\ OnlyLegacyHooks) =>
        call.out = IF ~LegacyParams.responds THEN LegacyAugment(Cls, call.img, NoneParam)
                   ELSE IF LegacyParams.p.kind = "tfm"
                   THEN Ok((call.img + LegacyParams.p.v) % NImg)
                   ELSE LegacyAugment(Cls, call.img, LegacyParams.p)

\* C6 witness: augment ran on a class whose only parameter hook is the public
\* one, returned a plain value that is not 0, and _augment used it
C6_Witness ==
    /\ call.op = "augment" /\ OnlyLegacyHooks
    /\ Cls.pub = "plain" /\ Cls.augment = "dbl"
    /\ LegacyParams.p.v # 0 /\ call.out.ok

Defined(hook) == hook # "absent"
PrivCall == HookCall(Cls.priv, "priv", call.img, Pos0)
PubCall == HookCall(Cls.pub, "pub", call.img, PrivCall.pos)

\* C7 (as stated): get_transform uses the private hook's result when both hooks
\* are present, the result of the one present when only one is, None when
\* neither is.
C7_FirstHookWins ==
    (call.op = "get_transform" /\ Cls.base = "legacy"
        /\ Cls.priv # "raises" /\ Cls.pub # "raises") =>
        call.p = IF Defined(Cls.priv) THEN PrivCall.p
                 ELSE IF Defined(Cls.pub) THEN PubCall.p
                 ELSE NoneParam

\* C7 (amended): get_transform calls both hooks, private first, and the last one
\* that responds wins: the public hook's result when the public hook is present
\* and returns, else the private hook's result when that one is present and
\* returns, else None.
C7_LastHookWins ==
    (call.op = "get_transform" /\ Cls.base = "legacy") =>
        call.p = IF PubCall.responds THEN PubCall.p
                 ELSE IF PrivCall.responds THEN PrivCall.p
                 ELSE NoneParam

\* C7 witness: both hooks are present and return different values, and
\* get_transform used the public one's
C7_Witness ==
    /\ call.op = "get_transform" /\ Cls.base = "legacy"
    /\ PrivCall.responds /\ PubCall.responds /\ PrivCall.p # PubCall.p
    /\ call.p = PubCall.p

\* A class with no parameter hook and no application hook
NoHooks ==
    /\ Cls.base = "legacy" /\ Cls.priv = "absent" /\ Cls.pub = "absent"
    /\ Cls.augment = "absent" /\ Cls.coords = "absent"

\* C8 (as stated): with no parameter hook and no application hook, get_transform
\* and augment raise nothing, the parameter is None, and the transform returns
\* the image unchanged from apply_image and the coordinates unchanged from
\* apply_coords.
C8_NoHooksIsIdentity ==
    (call.op # "none" /\ NoHooks) =>
        /\ call.op \in {"get_transform", "augment_return_tfm"} => call.p = NoneParam
        /\ call.op = "get_transform" => call.out.ok
        /\ call.op \in {"augment", "augment_return_tfm", "apply_image"} =>
              call.out = Ok(call.img)
        /\ call.op = "apply_coords" => call.out = Ok(call.coords)

\* C8 (amended): with no parameter hook and no application hook, get_transform
\* raises nothing, the parameter is None and apply_coords returns the coordinates
\* unchanged; apply_image, and so augment and augment_return_tfm, raise
\* AttributeError, as the transform calls the missing _augment.
C8_NoHooksIdentityOnCoordsOnly ==
    (call.op # "none" /\ NoHooks) =>
        /\ call.op \in {"get_transform", "augment_return_tfm"} => call.p = NoneParam
        /\ call.op = "get_transform" => call.out.ok /\ call.tfm.kind = "legacy"
        /\ call.op \in {"augment", "augment_return_tfm", "apply_image"} =>
              call.out = Err("AttributeError")
        /\ call.op = "apply_coords" => call.out = Ok(call.coords)

\* C8 witness: augment was called on a class with no hooks at all
C8_Witness == call.op = "augment" /\ NoHooks /\ ~call.out.ok

\* apply_coords of a transform that get_transform built around a parameter that
\* is no Transform, for a class without _augment_coords
LegacyCoordsNoHook ==
    /\ call.op = "apply_coords" /\ Cls.base = "legacy" /\ Cls.coords = "absent"
    /\ call.tfm.kind = "legacy"

\* C9 (as stated): without _augment_coords the transform maps every coordinate
\* set to itself, whatever the parameter (None or any other object that is no
\* Transform); the inherited augment_coords never changes the result or raises.
C9_CoordsIdentityForAnyParam ==
    LegacyCoordsNoHook => call.out = Ok(call.coords)

\* C9 (amended): without _augment_coords the transform maps every coordinate set
\* to itself when the parameter has no apply_coords attribute (None, a number, a
\* tuple); when the parameter has one, the inherited augment_coords calls it and
\* its result, or its exception other than AttributeError, is the transform's.
C9_CoordsIdentityUnlessParamApplies ==
    LegacyCoordsNoHook =>
        call.out = IF call.tfm.p.kind \in {"none", "plain"} THEN Ok(call.coords)
                   ELSE IF call.tfm.p.kind = "duckraise" THEN Err("ValueError")
                   ELSE Ok((call.coords + call.tfm.p.v + 2) % NCoord)

\* C9 witness: apply_coords ran on a transform built around a plain parameter
C9_Witness ==
    /\ LegacyCoordsNoHook /\ call.tfm.p.kind = "plain" /\ call.tfm.p.v # 0
    /\ call.out = Ok(call.coords)

\* ------------------------------------------------------------------------
\* SpecList: two augmentors, an inner list of them, and the list under test,
\* which may hold all three
\* ------------------------------------------------------------------------
Legacy(priv, pub, augment) ==
    [base |-> "legacy", priv |-> priv, pub |-> pub, augment |-> augment,
     coords |-> "absent", get_params |-> "none", impl |-> "absent", augmentors |-> <<>>]
Photometric(get_params, impl) ==
    [base |-> "photometric", priv |-> "absent", pub |-> "absent", augment |-> "absent",
     coords |-> "absent", get_params |-> get_params, impl |-> impl, augmentors |-> <<>>]

\* the classes the stages of a list are taken from
StageClasses ==
    <<Legacy("plain", "absent", "add"), Legacy("absent", "plain", "dbl"),
      Legacy("tfm", "absent", "add"), Photometric("plain", "dbl")>>

Inner == 3
Outer == 4

InitList ==
    /\ \E c1 \in 1..Len(StageClasses), c2 \in 1..Len(StageClasses),
          in \in SeqsUpTo({1, 2}, MaxStages), out \in SeqsUpTo({1, 2, Inner}, MaxStages) :
            /\ c1 <= c2
            /\ (\A i \in 1..Len(out) : out[i] # Inner) => in = <<>>
            /\ insts = <<StageClasses[c1], StageClasses[c2], ListOf(in), ListOf(out)>>
    /\ rngs = <<0, 0, 0, 0>>
    /\ call = NoCall
    /\ hasRegisterAtFork = FALSE /\ heap = <<>> /\ atFork = <<>> /\ forked = FALSE
    /\ pending = <<>> /\ lastReset = NoReset /\ lastDraw = NoDraw /\ ops = 0
    /\ sig = <<>> /\ attrs = <<>> /\ shown = <<>>

\* an image check_dtype or the ndim assertion rejects
BadImg == NImg
Valid(img) == img \in Imgs

\* img2, tfms = lst.augment_return_tfm(img)
ListAugmentReturnTfm(l, img) ==
    LET r == AugmentorList_augment_return_tfm(insts, rngs, l, img, Valid(img))
    IN /\ call' = [NoCall EXCEPT !.op = "list_augment_return_tfm", !.self = l, !.img = img,
                                 !.valid = Valid(img), !.rng0 = rngs, !.tfms = r.tfms,
                                 !.out = r.out]
       /\ rngs' = r.rs
       /\ UNCHANGED <<insts, lifeVars, reprVars>>

\* a.augment(img) on a stage or on the inner list
AnyAugment(a, img) ==
    LET r == AugmentOf(insts, rngs, a, img, TRUE)
    IN /\ call' = [NoCall EXCEPT !.op = "augment", !.self = a, !.img = img, !.out = r.out]
       /\ rngs' = r.rs
       /\ UNCHANGED <<insts, lifeVars, reprVars>>

\* lst.get_transform(img)
ListGetTransform(a, img) ==
    LET g == GetTransformOf(insts, rngs, a, img)
    IN /\ call' = [NoCall EXCEPT !.op = "get_transform", !.self = a, !.img = img,
                                 !.p = g.p,
                                 !.tfm = IF g.out.ok THEN g.out.val ELSE NoTfm,
                                 !.out = IF g.out.ok THEN Ok(0) ELSE g.out]
       /\ rngs' = [rngs EXCEPT ![a] = g.pos]
       /\ UNCHANGED <<insts, lifeVars, reprVars>>

NextList ==
    \/ \E img \in Imgs \cup {BadImg} : ListAugmentReturnTfm(Outer, img)
    \/ \E a \in 1..Inner, img \in Imgs : AnyAugment(a, img)
    \/ \E img \in Imgs : ListGetTransform(Outer, img)

SpecList == InitList /\ [][NextList]_vars

\* ------------------------------------------------------------------------
\* Properties of SpecList
\* ------------------------------------------------------------------------
RECURSIVE ManualApply(_, _, _, _)
\* applying each augmentor's augment by hand, in order, each stage getting the
\* image the stage before returned; an exception ends it
ManualApply(is, rs, augs, img) ==
    IF augs = <<>> THEN Ok(img)
    ELSE LET r == AugmentOf(is, rs, Head(augs), img, TRUE)
         IN IF ~r.out.ok THEN r.out ELSE ManualApply(is, r.rs, Tail(augs), r.out.val)

HasListStage(l) == \E i \in 1..Len(insts[l].augmentors) : insts[insts[l].augmentors[i]].base = "list"

ListCallDone == call.op = "list_augment_return_tfm" /\ call.valid

\* C1: for a list of n augmentors of any kind, another list included, and a
\* valid image, augment_return_tfm gives the image that applying each stage's
\* augment by hand in list order gives, and n transforms in that order.
C1_ListEqualsManual ==
    ListCallDone =>
        /\ call.out = ManualApply(insts, call.rng0, insts[call.self].augmentors, call.img)
        /\ call.out.ok =>
              /\ Len(call.tfms) = Len(insts[call.self].augmentors)
              /\ \A i \in 1..Len(call.tfms) :
                    call.tfms[i].self \in {0, insts[call.self].augmentors[i]}

\* C1, on lists that hold no list: what the claim says holds of these
C1_FlatListEqualsManual ==
    (ListCallDone /\ ~HasListStage(call.self)) => C1_ListEqualsManual

\* C1, the case that fails: a list that holds a list ends in RuntimeError, as it
\* calls get_transform on the inner list
C1_NestedListRaises ==
    (ListCallDone /\ HasListStage(call.self)) => call.out = Err("RuntimeError")

\* ------------------------------------------------------------------------
\* SpecRepr: __repr__ of an instance of a subclass
\* ------------------------------------------------------------------------
\* Values an attribute or a default can be: each an object (id) with its
\* pprint.pformat text. Big and Big2 are two objects holding the same number.
V30 == [id |-> 1, text |-> "30"]
VTrue == [id |-> 2, text |-> "True"]
VFalse == [id |-> 3, text |-> "False"]
VBig == [id |-> 4, text |-> "1000"]
VBig2 == [id |-> 5, text |-> "1000"]
Missing == [id |-> 0, text |-> ""]
Values == {V30, VTrue, VFalse, VBig, VBig2}
DefaultValues == {VTrue, VBig}

ParamNames == {"angle", "clip", "_seed"}
IsPrivate(f) == f = "_seed"

\* inspect.getargspec(self.__init__) of the subclasses: args after self (distinct
\* names), the defaults of the last ones, and whether *args, **kwargs are taken
Sigs ==
    {s \in [name : {"ClassName"}, args : SeqsUpTo(ParamNames, MaxFields),
            defaults : SeqsUpTo(DefaultValues, MaxFields),
            varargs : BOOLEAN, keywords : BOOLEAN] :
        /\ Len(s.defaults) <= Len(s.args)
        /\ \A i \in 1..Len(s.args), j \in 1..Len(s.args) : s.args[i] = s.args[j] => i = j}

RECURSIVE Join(_, _)
\* sep.join(items)
Join(items, sep) ==
    IF items = <<>> THEN ""
    ELSE IF Len(items) = 1 THEN items[1]
    ELSE items[1] \o sep \o Join(Tail(items), sep)

\* ImageAugmentor._init(params): setattr(self, k, v) for every k of locals()
\* that is not self and does not start with an underscore
ImageAugmentor_init_params(at, params) ==
    [f \in ParamNames |-> IF f \in DOMAIN params /\ ~IsPrivate(f) THEN params[f] ELSE at[f]]

\* the except branch: log_once(the message), return object.__repr__(self)
ReprFallback(s, msg) == [text |-> "<" \o s.name \o " object>", warned |-> msg]

ImageAugmentor_repr_by_equality(s, at) ==
    LET fields == s.args
        index_field_has_default == Len(fields) - Len(s.defaults)
        missing == {i \in 1..Len(fields) : at[fields[i]] = Missing}
        kept == {i \in 1..Len(fields) :
                    ~(i > index_field_has_default
                        /\ at[fields[i]].text = s.defaults[i - index_field_has_default].text)}
        argstr == [i \in 1..Len(fields) |-> fields[i] \o "=" \o at[fields[i]].text]
        idx == [i \in 1..Len(fields) |-> i]
        shownIdx == SelectSeq(idx, LAMBDA i : i \in kept)
    IN IF s.varargs THEN ReprFallback(s, "The default __repr__ doesn't work for varargs!")
       ELSE IF s.keywords THEN ReprFallback(s, "The default __repr__ doesn't work for kwargs!")
       ELSE IF missing # {} THEN ReprFallback(s, "Attribute not found")
       ELSE [text |-> "imgaug." \o s.name \o "("
                        \o Join([k \in 1..Len(shownIdx) |-> argstr[shownIdx[k]]], ", ") \o ")",
             warned |-> ""]

\* ImageAugmentor.__repr__: fields = argspec.args[1:]; every field must be an
\* attribute; a field with a default is left out when the attribute is the
\* default object itself (is); "imgaug.{}({})".format(classname, ', '.join(argstr));
\* an AssertionError gives the fallback
ImageAugmentor_repr(s, at) ==
    LET fields == s.args
        index_field_has_default == Len(fields) - Len(s.defaults)
        missing == {i \in 1..Len(fields) : at[fields[i]] = Missing}
        kept == {i \in 1..Len(fields) :
                    ~(i > index_field_has_default
                        /\ at[fields[i]].id = s.defaults[i - index_field_has_default].id)}
        argstr == [i \in 1..Len(fields) |-> fields[i] \o "=" \o at[fields[i]].text]
        idx == [i \in 1..Len(fields) |-> i]
        shownIdx == SelectSeq(idx, LAMBDA i : i \in kept)
    IN IF s.varargs THEN ReprFallback(s, "The default __repr__ doesn't work for varargs!")
       ELSE IF s.keywords THEN ReprFallback(s, "The default __repr__ doesn't work for kwargs!")
       ELSE IF missing # {} THEN ReprFallback(s, "Attribute not found")
       ELSE [text |-> "imgaug." \o s.name \o "("
                        \o Join([k \in 1..Len(shownIdx) |-> argstr[shownIdx[k]]], ", ") \o ")",
             warned |-> ""]

NoShown == [text |-> "", warned |-> ""]

InitRepr ==
    /\ sig \in Sigs
    /\ attrs = [f \in ParamNames |-> Missing]
    /\ shown = NoShown
    /\ insts = <<>> /\ rngs = <<>> /\ call = <<>>
    /\ hasRegisterAtFork = FALSE /\ heap = <<>> /\ atFork = <<>> /\ forked = FALSE
    /\ pending = <<>> /\ lastReset = NoReset /\ lastDraw = NoDraw /\ ops = 0

\* the subclass's __init__ stores its arguments, before any attribute is set:
\* self._init(locals())
InitLocals(params) ==
    /\ attrs = [f \in ParamNames |-> Missing]
    /\ attrs' = ImageAugmentor_init_params(attrs, params)
    /\ shown' = NoShown
    /\ UNCHANGED <<sig, lifeVars, augVars>>

\* self.<f> = v, by the subclass's __init__ or later
SetAttr(f, v) ==
    /\ attrs' = [attrs EXCEPT ![f] = v]
    /\ shown' = NoShown
    /\ UNCHANGED <<sig, lifeVars, augVars>>

\* repr(aug), str(aug)
Repr ==
    /\ shown' = ImageAugmentor_repr(sig, attrs)
    /\ UNCHANGED <<sig, attrs, lifeVars, augVars>>

NextRepr ==
    \/ \E params \in [Range(sig.args) -> Values] : InitLocals(params)
    \/ \E f \in Range(sig.args), v \in Values : SetAttr(f, v)
    \/ Repr

SpecRepr == InitRepr /\ [][NextRepr]_vars

\* ------------------------------------------------------------------------
\* Properties of SpecRepr
\* ------------------------------------------------------------------------
\* the constructor default of the i-th parameter, Missing when it has none
DefaultOf(s, i) ==
    IF i > Len(s.args) - Len(s.defaults)
    THEN s.defaults[i - (Len(s.args) - Len(s.defaults))]
    ELSE Missing

RECURSIVE Items(_, _, _, _)
\* "field=value" of the parameters from the i-th on, in constructor order,
\* without the private ones when skipPrivate, and without those whose attribute
\* is the default object
Items(s, at, i, skipPrivate) ==
    IF i > Len(s.args) THEN <<>>
    ELSE (IF (skipPrivate /\ IsPrivate(s.args[i])) \/ at[s.args[i]].id = DefaultOf(s, i).id
          THEN <<>>
          ELSE <<s.args[i] \o "=" \o at[s.args[i]].text>>)
             \o Items(s, at, i + 1, skipPrivate)

\* the class of the example: __init__(self, angle, clip=True)
ExampleSig ==
    /\ sig.args = <<"angle", "clip">> /\ sig.defaults = <<VTrue>>
    /\ ~sig.varargs /\ ~sig.keywords

Rendered == shown # NoShown /\ ~sig.varargs /\ ~sig.keywords

\* C10 (as stated): the representation is ClassName(field=value, ...) over the
\* non-private constructor parameters in constructor order, without exactly the
\* fields whose attribute is the constructor default; (self, angle, clip=True)
\* with angle=30 gives ClassName(angle=30) for clip=True and
\* ClassName(angle=30, clip=False) for clip=False.
C10_ReprIsClassNameOfFields ==
    /\ (Rendered /\ \A f \in Range(sig.args) : IsPrivate(f) \/ attrs[f] # Missing) =>
          shown.text = sig.name \o "(" \o Join(Items(sig, attrs, 1, TRUE), ", ") \o ")"
    /\ (Rendered /\ ExampleSig /\ attrs["angle"] = V30 /\ attrs["clip"] = VTrue) =>
          shown.text = "ClassName(angle=30)"
    /\ (Rendered /\ ExampleSig /\ attrs["angle"] = V30 /\ attrs["clip"] = VFalse) =>
          shown.text = "ClassName(angle=30, clip=False)"

\* C10 (amended): the representation is imgaug.ClassName(field=value, ...) over
\* all constructor parameters after self, private ones included, in constructor
\* order, without exactly the fields whose attribute is the constructor default
\* object itself; (self, angle, clip=True) with angle=30 gives
\* imgaug.ClassName(angle=30) for clip=True and
\* imgaug.ClassName(angle=30, clip=False) for clip=False. When a parameter has
\* no attribute of its name, or the constructor takes *args or **kwargs, it is
\* the generic representation, with a warning.
C10_ReprIsImgaugClassNameOfFields ==
    /\ (Rendered /\ \A f \in Range(sig.args) : attrs[f] # Missing) =>
          /\ shown.text = "imgaug." \o sig.name \o "("
                             \o Join(Items(sig, attrs, 1, FALSE), ", ") \o ")"
          /\ shown.warned = ""
    /\ (shown # NoShown
          /\ (sig.varargs \/ sig.keywords \/ \E f \in Range(sig.args) : attrs[f] = Missing)) =>
          /\ shown.text = "<" \o sig.name \o " object>"
          /\ shown.warned # ""
    /\ (Rendered /\ ExampleSig /\ attrs["angle"] = V30 /\ attrs["clip"] = VTrue) =>
          shown.text = "imgaug.ClassName(angle=30)"
    /\ (Rendered /\ ExampleSig /\ attrs["angle"] = V30 /\ attrs["clip"] = VFalse) =>
          shown.text = "imgaug.ClassName(angle=30, clip=False)"

\* C10 witness: the example instance with clip=False was rendered
C10_Witness ==
    /\ Rendered /\ ExampleSig /\ attrs["angle"] = V30 /\ attrs["clip"] = VFalse
    /\ shown.text = "imgaug.ClassName(angle=30, clip=False)"

====
